---------------------------- MODULE Spec2Model ----------------------------
(***************************************************************************)
(* Model of file-structure/src/iter.rs: FilesIter, the lazy traversal of a *)
(* recursive File tree driven by a double-ended queue, and PathsIter, the  *)
(* adapter that projects every yielded File to its path.                   *)
(*                                                                         *)
(* A tree is an arena: nodes 1..n, node 1 the root, parent[i] < i, the     *)
(* children of a directory in increasing index order.  An iterator is a    *)
(* record with the fields of the Rust struct.  One action is one call of a *)
(* public method; Iterator::next is computed whole, its self-recursion on  *)
(* a filtered entry included.                                              *)
(***************************************************************************)
EXTENDS Integers, Sequences, FiniteSets, TLC

(***************************************************************************)
(* Bounds of the model.                                                    *)
(***************************************************************************)
\* Largest number of nodes of an input tree.
MaxNodes == 4
\* Largest number of nodes of an input tree for the claims about depths,
\* whose cases need a leaf three levels down beside a leaf one level down.
MaxDeepNodes == 5
\* Largest argument handed to min_depth and max_depth.
MaxDepthArg == 2
\* Largest number of nodes of an input tree where the iterator may also be
\* converted with paths().
MaxPathNodes == 4
\* Largest number of nodes of an input tree for the caller that never stops
\* calling next().
MaxLiveNodes == 3
\* Largest number of nodes of an input tree one of whose paths may have no
\* final component.
MaxDotNodes == 3

\* usize::MAX, the default of max_depth.  Only compared with depths, which
\* stay below the number of nodes, so any value above every depth behaves alike.
UsizeMax == 2147483647
\* usize::MIN, the default of min_depth.
UsizeMin == 0

\* Option: None, and Some(x) for a returned item.
None == <<>>

Some(x) == <<x>>

FileTypes == {"Regular", "Symlink", "Directory"}

(***************************************************************************)
(* Sequences.                                                              *)
(***************************************************************************)
Reverse(s) == [i \in 1..Len(s) |-> s[Len(s) + 1 - i]]

Last(s) == s[Len(s)]

Range(s) == {s[i] : i \in 1..Len(s)}

\* The element of a singleton set.
TheOne(S) == CHOOSE x \in S : TRUE

NoDuplicates(s) == \A i, j \in 1..Len(s) : s[i] = s[j] => i = j

(***************************************************************************)
(* The File tree (built outside iter.rs; the iterator only reads it).      *)
(***************************************************************************)
\* FileType::is_dir
is_dir(t, file) == t.ftype[file] = "Directory"

\* FileType::is_regular
is_regular(t, file) == t.ftype[file] = "Regular"

\* FileType::is_symlink (never called by iter.rs; used to state claims)
is_symlink(t, file) == t.ftype[file] = "Symlink"

RECURSIVE ChildrenFrom(_, _, _)
ChildrenFrom(t, dir, i) ==
    IF i > t.n THEN <<>>
    ELSE IF t.parent[i] = dir THEN <<i>> \o ChildrenFrom(t, dir, i + 1)
    ELSE ChildrenFrom(t, dir, i + 1)

\* The Vec<File> a Directory owns, in its order.
children(t, dir) == ChildrenFrom(t, dir, dir + 1)

\* Distance of a node from the root.
RECURSIVE TrueDepth(_, _)
TrueDepth(t, file) == IF file = 1 THEN 0 ELSE 1 + TrueDepth(t, t.parent[file])

\* File::path of the trees the model enumerates: the components from the
\* root down, a node's own component being its index in the arena.
RECURSIVE PathOf(_, _)
PathOf(parent, file) ==
    IF file = 1 THEN <<ToString(1)>>
    ELSE PathOf(parent, parent[file]) \o <<ToString(file)>>

\* The shapes of the ordered rooted trees of n nodes, each once: nodes
\* numbered level by level, so parents are non-decreasing.
ParentMaps(n) ==
    { p \in [1..n -> 0..(n - 1)] :
        /\ p[1] = 0
        /\ \A i \in 2..n : p[i] >= 1 /\ p[i] < i /\ p[i - 1] <= p[i] }

\* Every tree of n nodes: any type for a node, only a Directory having
\* children.
TreesOfSize(n) ==
    UNION { { [n |-> n, parent |-> p, ftype |-> ft,
               path |-> [i \in 1..n |-> PathOf(p, i)]] :
                ft \in { f \in [1..n -> FileTypes] :
                            \A i \in 2..n : f[p[i]] = "Directory" } } :
            p \in ParentMaps(n) }

TreesUpTo(max) == UNION { TreesOfSize(n) : n \in 1..max }

\* The trees where at most one node was constructed with the path "..",
\* which has no final component.
TreesWithDotDot(max) ==
    UNION { { [t EXCEPT !.path = [i \in 1..t.n |-> IF i = d THEN <<"..">> ELSE t.path[i]]] :
                d \in 0..t.n } :
            t \in TreesUpTo(max) }

\* The tree of tests::testing_files_and_paths_iters; node k + 1 is refs[k].
TestTree ==
    [ n |-> 10,
      parent |-> <<0, 1, 2, 2, 2, 5, 5, 2, 1, 1>>,
      ftype |-> << "Directory", "Directory", "Regular", "Regular", "Directory",
                   "Regular", "Regular", "Regular", "Regular", "Regular" >>,
      path |-> << <<".config">>,
                  <<".config", "i3">>,
                  <<".config", "i3", "file1">>,
                  <<".config", "i3", "file2">>,
                  <<".config", "i3", "dir">>,
                  <<".config", "i3", "dir", "innerfile1">>,
                  <<".config", "i3", "dir", "innerfile2">>,
                  <<".config", "i3", "file3">>,
                  <<".config", "outerfile1">>,
                  <<".config", "outerfile2">> >> ]

(***************************************************************************)
(* FilesIter                                                               *)
(***************************************************************************)
\* FilesIter::new
FilesIterNew(start_file) ==
    [ file_deque               |-> << <<start_file, 0>> >>,
      current_depth            |-> 0,
      files_before_directories |-> FALSE,
      skip_dirs                |-> FALSE,
      skip_regular_files       |-> FALSE,
      skip_symlinks            |-> FALSE,
      min_depth                |-> UsizeMin,
      max_depth                |-> UsizeMax ]

\* FilesIter::depth
FilesIterDepth(self) == self.current_depth

\* VecDeque::pop_front as next() uses it: the entry and the remaining deque.
pop_front(deque) == [entry |-> Head(deque), deque |-> Tail(deque)]

\* A pop_back that also loses the front entry.
pop_back_loses_front(deque) ==
    [entry |-> Last(deque), deque |-> SubSeq(deque, 2, Len(deque) - 1)]

\* VecDeque::pop_back as next() uses it.
pop_back(deque) ==
    [entry |-> Last(deque), deque |-> SubSeq(deque, 1, Len(deque) - 1)]

\* A choice of the end that forgets the files_before_directories option.
pop_from_the_left_ignores_option(t, self) ==
    ~is_dir(t, Last(self.file_deque)[1])

\* The front is popped whatever sits at the back.
pop_from_the_left_always(t, self) == TRUE

\* "Pop from left or right?"
pop_from_the_left(t, self) ==
    LET last_file_is_directory == is_dir(t, Last(self.file_deque)[1])
    IN  self.files_before_directories \/ ~last_file_is_directory

\* Every child is pushed at the back, whatever its type.
PushChildrenAllBack(t, deque, kids, depth) ==
    deque \o [i \in 1..Len(kids) |-> <<kids[i], depth + 1>>]

\* The loop body over children.iter().rev(): kids is what is left of the
\* reversed child list.
RECURSIVE PushChildren(_, _, _, _)
PushChildren(t, deque, kids, depth) ==
    IF kids = <<>> THEN deque
    ELSE LET child == Head(kids)
         IN  IF is_dir(t, child)
             THEN PushChildren(t, Append(deque, <<child, depth + 1>>), Tail(kids), depth)
             ELSE PushChildren(t, <<  <<child, depth + 1>> >> \o deque, Tail(kids), depth)

\* Children pushed in their own order, not reversed.
AddChildrenUnreversed(t, deque, file, depth) ==
    IF is_dir(t, file)
    THEN PushChildren(t, deque, children(t, file), depth)
    ELSE deque

\* The non-directory children are also left at the back of the deque.
AddChildrenTwice(t, deque, file, depth) ==
    IF is_dir(t, file)
    THEN PushChildren(t,
                      deque \o [i \in 1..Len(SelectSeq(children(t, file), LAMBDA c : ~is_dir(t, c)))
                                  |-> <<SelectSeq(children(t, file), LAMBDA c : ~is_dir(t, c))[i], depth + 1>>],
                      Reverse(children(t, file)), depth)
    ELSE deque

\* Children recorded at the depth of their parent.
AddChildrenAtParentDepth(t, deque, file, depth) ==
    IF is_dir(t, file)
    THEN PushChildren(t, deque, Reverse(children(t, file)), depth - 1)
    ELSE deque

\* "If directory, add children": the deque after the popped file was
\* expanded.
AddChildren(t, deque, file, depth) ==
    IF is_dir(t, file)
    THEN PushChildren(t, deque, Reverse(children(t, file)), depth)
    ELSE deque

\* Depth limits that exclude the bounds themselves.
DepthSkippedStrict(self, depth) ==
    self.min_depth >= depth \/ self.max_depth <= depth

\* "If should skip due to depth limits"
DepthSkipped(self, depth) ==
    self.min_depth > depth \/ self.max_depth < depth

\* "If should skip due file type specific skip filters": skip_dirs is
\* tested twice, skip_symlinks is not tested.
TypeSkipped(t, self, file) ==
    \/ self.skip_regular_files /\ is_regular(t, file)
    \/ self.skip_dirs /\ is_dir(t, file)
    \/ self.skip_dirs /\ is_dir(t, file)

\* <FilesIter as Iterator>::next: the iterator after the call, the returned
\* item (None or Some(node)) and, for the record, the nodes the call popped.
\* The iterator after the pop and the result of the recursive call are each
\* bound once, as the element of a singleton set.
RECURSIVE FilesIterNext(_, _)
FilesIterNext(t, self) ==
    IF self.file_deque = <<>>
    THEN [iter |-> self, item |-> None, popped |-> <<>>]
    ELSE LET pop   == IF pop_from_the_left(t, self)
                      THEN pop_front(self.file_deque)
                      ELSE pop_back(self.file_deque)
             file  == pop.entry[1]
             depth == pop.entry[2]
             after == [self EXCEPT
                         !.current_depth = depth,
                         !.file_deque = AddChildren(t, pop.deque, file, depth)]
         IN  TheOne({ IF DepthSkipped(now, depth) \/ TypeSkipped(t, now, file)
                      THEN TheOne({ [again EXCEPT !.popped = <<file>> \o again.popped]
                                    : again \in {FilesIterNext(t, now)} })
                      ELSE [iter |-> now, item |-> Some(file), popped |-> <<file>>]
                      : now \in {after} })

\* What a caller collects by pulling the iterator until it returns None:
\* each yielded node with depth() as read right after the call.
RECURSIVE FilesRun(_, _)
FilesRun(t, self) ==
    LET r == FilesIterNext(t, self)
    IN  IF r.item = None THEN <<>>
        ELSE << <<r.item[1], FilesIterDepth(r.iter)>> >> \o FilesRun(t, r.iter)

(***************************************************************************)
(* PathsIter                                                               *)
(***************************************************************************)
\* A conversion that restarts the traversal at the root.
PathsIterNewRestarts(file_iter) ==
    [ file_iter |-> [file_iter EXCEPT !.file_deque = << <<1, 0>> >>],
      only_show_last_segment |-> FALSE ]

\* PathsIter::new, which FilesIter::paths calls.
PathsIterNew(file_iter) ==
    [ file_iter |-> file_iter, only_show_last_segment |-> FALSE ]

\* FilesIter::paths
FilesIterPaths(self) == PathsIterNew(self)

\* PathsIter::only_show_last_segment
only_show_last_segment(self, arg) == [self EXCEPT !.only_show_last_segment = arg]

\* PathsIter::depth
PathsIterDepth(self) == FilesIterDepth(self.file_iter)

\* Path::file_name: the final component, None when the path ends in "..".
file_name(path) ==
    IF path = <<>> \/ Last(path) = ".." THEN None ELSE Some(<<Last(path)>>)

\* PathsIter::next_ref: the iterator after the call and the returned
\* Option<&Path>; file is the item the wrapped FilesIter returned.
PathsIterNextRef(t, self) ==
    LET r == FilesIterNext(t, self.file_iter)
        after == [self EXCEPT !.file_iter = r.iter]
    IN  [ iter   |-> after,
          file   |-> r.item,
          popped |-> r.popped,
          item   |-> IF r.item = None THEN None
                     ELSE IF self.only_show_last_segment
                          THEN file_name(t.path[r.item[1]])
                          ELSE Some(t.path[r.item[1]]) ]

\* <PathsIter as Iterator>::next: next_ref()?.to_path_buf(), an owned copy
\* of the same path.
PathsIterNext(t, self) == PathsIterNextRef(t, self)

(***************************************************************************)
(* State                                                                   *)
(***************************************************************************)
VARIABLES
    tree,      \* the File tree the iterator borrows
    kind,      \* "FilesIter" or "PathsIter": the type of the value in iter
    iter,      \* the iterator
    calls,     \* number of next()/next_ref() calls made, up to and including
               \* the first that returned None
    ret,       \* what the last such call returned (None before any call)
    yielded,   \* the nodes FilesIter::next returned so far, in order
    paths_out, \* the paths PathsIter returned so far, in order
    pcalls,    \* number of those calls made on the PathsIter
    depths,    \* depth() as read right after each call that returned a node
    popped,    \* the nodes popped from file_deque so far, in order
    extra,     \* number of calls made after a call returned None, 1 for "some"
    built      \* whether the caller has chained its builder calls

vars == <<tree, kind, iter, calls, ret, yielded, paths_out, pcalls, depths, popped, extra, built>>

InitWith(t) ==
    /\ tree = t
    /\ kind = "FilesIter"
    /\ iter = FilesIterNew(1)
    /\ calls = 0
    /\ ret = None
    /\ yielded = <<>>
    /\ paths_out = <<>>
    /\ pcalls = 0
    /\ depths = <<>>
    /\ popped = <<>>
    /\ extra = 0
    /\ built = FALSE

Init == \E t \in TreesUpTo(MaxNodes) : InitWith(t)

Exhausted == calls > 0 /\ ret = None

\* The builder methods: each takes the iterator by value and returns it
\* with one option set.
files_before_directories(self, arg) == [self EXCEPT !.files_before_directories = arg]

skip_dirs(self, arg) == [self EXCEPT !.skip_dirs = arg]

skip_regular_files(self, arg) == [self EXCEPT !.skip_regular_files = arg]

skip_symlinks(self, arg) == [self EXCEPT !.skip_symlinks = arg]

min_depth(self, min) == [self EXCEPT !.min_depth = min]

max_depth(self, max) == [self EXCEPT !.max_depth = max]

\* The caller's chain of builder calls on the value File::files() returned,
\* before the first pull:
\*   root.files().files_before_directories(fbd).skip_dirs(sd)
\*       .skip_regular_files(sr).skip_symlinks(ss).min_depth(min).max_depth(max)
Build ==
    /\ kind = "FilesIter" /\ calls = 0 /\ ~built
    /\ \E fbd, sd, sr, ss \in BOOLEAN :
       \E min \in 0..MaxDepthArg :
       \E max \in (0..MaxDepthArg) \cup {UsizeMax} :
          iter' = max_depth(min_depth(skip_symlinks(skip_regular_files(skip_dirs(
                      files_before_directories(iter, fbd), sd), sr), ss), min), max)
    /\ built' = TRUE
    /\ UNCHANGED <<tree, kind, calls, ret, yielded, paths_out, pcalls, depths, popped, extra>>

\* One call of <FilesIter as Iterator>::next by the owner of the iterator.
FilesNext ==
    /\ kind = "FilesIter"
    /\ \E r \in {FilesIterNext(tree, iter)} :
           /\ iter' = r.iter
           /\ ret' = r.item
           /\ calls' = IF Exhausted THEN calls ELSE calls + 1
           /\ popped' = popped \o r.popped
           /\ yielded' = yielded \o r.item
           /\ depths' = IF r.item = None THEN depths
                        ELSE Append(depths, FilesIterDepth(r.iter))
           /\ extra' = IF Exhausted THEN 1 ELSE extra
    /\ UNCHANGED <<tree, kind, paths_out, pcalls, built>>

\* it.paths().only_show_last_segment(arg): the FilesIter is consumed, at
\* any point of its traversal; arg = FALSE is also paths() alone.
paths ==
    /\ kind = "FilesIter"
    /\ kind' = "PathsIter"
    /\ \E arg \in BOOLEAN : iter' = only_show_last_segment(FilesIterPaths(iter), arg)
    /\ UNCHANGED <<tree, calls, ret, yielded, paths_out, pcalls, depths, popped, extra, built>>

PathsPull(r) ==
    /\ kind = "PathsIter"
    /\ iter' = r.iter
    /\ ret' = r.item
    /\ calls' = IF Exhausted THEN calls ELSE calls + 1
    /\ pcalls' = IF Exhausted /\ pcalls > 0 THEN pcalls ELSE pcalls + 1
    /\ popped' = popped \o r.popped
    /\ paths_out' = paths_out \o r.item
    /\ depths' = IF r.item = None THEN depths
                 ELSE Append(depths, PathsIterDepth(r.iter))
    /\ extra' = IF Exhausted THEN 1 ELSE extra
    /\ UNCHANGED <<tree, kind, yielded, built>>

\* One call of PathsIter::next_ref.
PathsNextRef == PathsPull(PathsIterNextRef(tree, iter))

\* One call of <PathsIter as Iterator>::next.
PathsNext == PathsPull(PathsIterNext(tree, iter))

\* The callers of a FilesIter.
Next ==
    \/ Build
    \/ FilesNext

Spec == Init /\ [][Next]_vars

\* The callers that may also convert the FilesIter and pull the PathsIter.
InitPaths == \E t \in TreesUpTo(MaxPathNodes) : InitWith(t)

NextPaths ==
    \/ Next
    \/ paths
    \/ PathsNextRef
    \/ PathsNext

SpecPaths == InitPaths /\ [][NextPaths]_vars

\* The callers of a FilesIter over the larger trees.
InitDeep == \E t \in TreesUpTo(MaxDeepNodes) : InitWith(t)

SpecDeep == InitDeep /\ [][Next]_vars

\* A caller that keeps calling next(): "repeatedly calling FilesIter::next".
InitLive == \E t \in TreesUpTo(MaxLiveNodes) : InitWith(t)

SpecLive == InitLive /\ [][Next]_vars /\ WF_vars(FilesNext)

\* The callers of a FilesIter or PathsIter over trees with a path "..".
InitDots == \E t \in TreesWithDotDot(MaxDotNodes) : InitWith(t)

SpecDots == InitDots /\ [][NextPaths]_vars

\* The callers of a FilesIter over the tree of the unit test.
InitScenario == InitWith(TestTree)

SpecScenario == InitScenario /\ [][Next]_vars

(***************************************************************************)
(* Properties                                                              *)
(***************************************************************************)
\* The FilesIter, also when a PathsIter wraps it.
files_iter == IF kind = "FilesIter" THEN iter ELSE iter.file_iter

NoSkipFlags(it) == ~it.skip_dirs /\ ~it.skip_regular_files /\ ~it.skip_symlinks

DefaultBounds(it) == it.min_depth = UsizeMin /\ it.max_depth = UsizeMax

\* A new iterator over the same tree with the options of it.
Fresh(it) == [it EXCEPT !.file_deque = << <<1, 0>> >>, !.current_depth = 0]

\* The yielded nodes paired with the depths read after each yield.
YieldedWithDepths == [k \in 1..Len(yielded) |-> <<yielded[k], depths[k]>>]

Nodes(run) == [k \in 1..Len(run) |-> run[k][1]]

\* The last yielded entry is at most one level below the one before it
\* (every earlier pair of yields is the last pair of an earlier state).
DepthRisesByAtMostOne ==
    Len(depths) >= 2 => Last(depths) <= depths[Len(depths) - 1] + 1

\* C1 as stated: under every configuration, the depth of a yielded entry is
\* at most one more than the depth of the entry yielded before it.
C1_DepthInvariant == DepthRisesByAtMostOne

\* C1 amended: when files_before_directories is set and skip_dirs is not,
\* under any depth bounds and any other skip flags, the depth of a yielded
\* entry is at most one more than the depth of the entry yielded before it.
C1_DepthInvariantFilesFirst ==
    (files_iter.files_before_directories /\ ~files_iter.skip_dirs)
        => DepthRisesByAtMostOne

C1_Witness ==
    /\ files_iter.files_before_directories /\ ~files_iter.skip_dirs
    /\ Exhausted
    /\ \E k \in 1..(Len(depths) - 1) : depths[k + 1] = depths[k] + 1
    /\ \E k \in 1..(Len(depths) - 1) : depths[k + 1] < depths[k]

\* C2: with no skip flags and the default depth bounds no node is yielded
\* twice, and once next() has returned None every node of the tree has been
\* yielded, in either order mode.
C2_Completeness ==
    (kind = "FilesIter" /\ NoSkipFlags(iter) /\ DefaultBounds(iter))
        => /\ NoDuplicates(yielded)
           /\ Exhausted => Range(yielded) = 1..tree.n

C2_Witness ==
    /\ kind = "FilesIter" /\ NoSkipFlags(iter) /\ DefaultBounds(iter)
    /\ iter.files_before_directories
    /\ Exhausted
    /\ Len(yielded) >= 4
    /\ \E f \in 2..tree.n : is_dir(tree, f) /\ children(tree, f) # <<>>

\* C3 as stated: for every combination of the three skip flags the yielded
\* sequence is the sequence yielded with no skip flag (same order mode, same
\* depth bounds) without the nodes of the skipped types, in the same order.
C3_FilterComposability ==
    (kind = "FilesIter" /\ Exhausted)
        => LET unfiltered == [Fresh(iter) EXCEPT !.skip_dirs = FALSE,
                                                 !.skip_regular_files = FALSE,
                                                 !.skip_symlinks = FALSE]
               Kept(f) == /\ ~(iter.skip_dirs /\ is_dir(tree, f))
                          /\ ~(iter.skip_regular_files /\ is_regular(tree, f))
                          /\ ~(iter.skip_symlinks /\ is_symlink(tree, f))
           IN  yielded = SelectSeq(Nodes(FilesRun(tree, unfiltered)), Kept)

\* C4 as stated: after skip_symlinks(true) no Symlink is yielded.
C4_SkipSymlinks ==
    files_iter.skip_symlinks => \A k \in 1..Len(yielded) : ~is_symlink(tree, yielded[k])

\* C5: once next() has returned None, the yielded entries are exactly the
\* entries of the traversal with default depth bounds (same order mode and
\* skip flags) whose depth lies in [min_depth, max_depth], in the same order;
\* nothing is yielded when min_depth > max_depth.
C5_DepthBounds ==
    (kind = "FilesIter" /\ Exhausted)
        => LET unbounded == [Fresh(iter) EXCEPT !.min_depth = UsizeMin,
                                                !.max_depth = UsizeMax]
               Within(e) == iter.min_depth <= e[2] /\ e[2] <= iter.max_depth
           IN  /\ YieldedWithDepths = SelectSeq(FilesRun(tree, unbounded), Within)
               /\ iter.min_depth > iter.max_depth => yielded = <<>>

C5_Witness ==
    /\ kind = "FilesIter" /\ Exhausted
    /\ iter.min_depth = 2 /\ iter.max_depth = 2
    /\ ~iter.skip_dirs
    /\ Len(yielded) >= 2
    /\ tree.n >= 4

\* C6: once next() has returned None, the set of yielded nodes is the set
\* the traversal in the other order mode yields under the same skip flags
\* and depth bounds.
C6_OrderModeTotality ==
    (kind = "FilesIter" /\ Exhausted)
        => LET other == [Fresh(iter) EXCEPT !.files_before_directories =
                                               ~iter.files_before_directories]
           IN  Range(yielded) = Range(Nodes(FilesRun(tree, other)))

C6_Witness ==
    /\ kind = "FilesIter" /\ Exhausted
    /\ Len(yielded) >= 4
    /\ LET other == [Fresh(iter) EXCEPT !.files_before_directories =
                                            ~iter.files_before_directories]
       IN  yielded # Nodes(FilesRun(tree, other))

\* The nodes the FilesIter under the PathsIter yields over its whole
\* traversal, from a new iterator with the same options.
WholeRun == Nodes(FilesRun(tree, Fresh(files_iter)))

PathsFollowFiles ==
    (kind = "PathsIter" /\ ~iter.only_show_last_segment)
        => /\ Len(yielded) + Len(paths_out) <= Len(WholeRun)
           /\ \A k \in 1..Len(paths_out) :
                 paths_out[k] = tree.path[WholeRun[Len(yielded) + k]]
           /\ pcalls > 0 => (ret = None <=> calls > Len(WholeRun))

ConversionKeepsIterator ==
    (kind = "FilesIter" /\ kind' = "PathsIter") => iter'.file_iter = iter

\* C7: paths() wraps the FilesIter as it is (same deque, same options); in
\* full-path mode, from then on the k-th pull overall returns the path of
\* the k-th node the FilesIter yields over its whole traversal, and a pull
\* returns None exactly when the FilesIter has no k-th node.
C7_PathProjection == [](PathsFollowFiles) /\ [][ConversionKeepsIterator]_vars

C7_Witness ==
    /\ kind = "PathsIter" /\ ~iter.only_show_last_segment
    /\ Len(yielded) >= 1
    /\ Len(paths_out) >= 2
    /\ pcalls > 0 /\ ret = None
    /\ iter.file_iter.files_before_directories
    /\ Len(Last(paths_out)) >= 2

Options(it) ==
    << it.files_before_directories, it.skip_dirs, it.skip_regular_files,
       it.skip_symlinks, it.min_depth, it.max_depth >>

\* The yielded nodes by the final component of their paths.
YieldedNames == [k \in 1..Len(yielded) |-> Last(tree.path[yielded[k]])]

\* C8: on the tree of the unit test, pulled until next() returns None, the
\* iterator has yielded exactly the listed sequences: in the default
\* configuration, with files_before_directories(true), with skip_dirs(true)
\* and with min_depth(1).max_depth(2).
C8_Scenario ==
    (tree = TestTree /\ kind = "FilesIter" /\ Exhausted)
        => /\ Options(iter) = <<FALSE, FALSE, FALSE, FALSE, UsizeMin, UsizeMax>>
                => YieldedNames = << ".config", "i3", "dir", "innerfile1", "innerfile2",
                                     "file1", "file2", "file3", "outerfile1", "outerfile2" >>
           /\ Options(iter) = <<TRUE, FALSE, FALSE, FALSE, UsizeMin, UsizeMax>>
                => YieldedNames = << ".config", "outerfile1", "outerfile2", "i3", "file1",
                                     "file2", "file3", "dir", "innerfile1", "innerfile2" >>
           /\ Options(iter) = <<FALSE, TRUE, FALSE, FALSE, UsizeMin, UsizeMax>>
                => YieldedNames = << "innerfile1", "innerfile2", "file1", "file2", "file3",
                                     "outerfile1", "outerfile2" >>
           /\ Options(iter) = <<FALSE, FALSE, FALSE, FALSE, 1, 2>>
                => YieldedNames = << "i3", "dir", "file1", "file2", "file3",
                                     "outerfile1", "outerfile2" >>

C8_Witness ==
    /\ tree = TestTree /\ kind = "FilesIter" /\ Exhausted
    /\ Options(iter) = <<FALSE, FALSE, FALSE, FALSE, 1, 2>>
    /\ Len(yielded) = 7

\* C9 as stated: depth() is the depth of the most recently yielded node,
\* and 0 when no node was yielded, also after next() returned None.
C9_DepthOfLastYielded ==
    kind = "FilesIter"
        => FilesIterDepth(iter) =
              IF yielded = <<>> THEN 0 ELSE TrueDepth(tree, Last(yielded))

QueuedNodes == [k \in 1..Len(files_iter.file_deque) |-> files_iter.file_deque[k][1]]

\* C10: once next() has returned None the deque is empty and every later
\* call returns None; no node is popped twice, none is queued twice, and
\* none that was popped is queued again.
C10_ExhaustionTerminal ==
    /\ Exhausted => files_iter.file_deque = <<>>
    /\ extra > 0 => ret = None
    /\ NoDuplicates(popped)
    /\ NoDuplicates(QueuedNodes)
    /\ Range(QueuedNodes) \cap Range(popped) = {}

C10_Witness ==
    /\ extra > 0
    /\ Len(popped) = tree.n /\ tree.n >= 4
    /\ Len(yielded) < Len(popped)

\* C11: a caller that keeps calling next() eventually gets None, and by then
\* and ever after no more entries have been popped than the tree has nodes;
\* a single call pops a whole run of filtered entries and still returns.
C11_Termination == <>Exhausted /\ [](Len(popped) <= tree.n)

C11_Witness ==
    /\ Exhausted
    /\ calls = 1
    /\ Len(popped) = tree.n /\ tree.n = MaxLiveNodes
    /\ yielded = <<>>

\* C12: a pull of a PathsIter (next_ref or next) returns None only when the
\* wrapped FilesIter has nothing left; a node whose path has no final
\* component is passed over, not reported as the end.
C12_DegenerateSkipped ==
    kind = "PathsIter" /\ pcalls > 0 /\ ret = None => iter.file_iter.file_deque = <<>>

\* C13 as documented: with files_before_directories set, a yielded entry is
\* at the depth of the entry yielded before it or one level below it, never
\* deeper and never shallower.
C13_DocumentedDepthStep ==
    (files_iter.files_before_directories /\ Len(depths) >= 2)
        => Last(depths) \in {depths[Len(depths) - 1], depths[Len(depths) - 1] + 1}

\* C14 as documented: PathsIter::depth() is 0 before any call of next(), and
\* it is 0 again once a pull of the PathsIter has returned None.
C14_PathsDepthZeroAtEnds ==
    kind = "PathsIter"
        => /\ calls = 0 => PathsIterDepth(iter) = 0
           /\ (pcalls > 0 /\ ret = None) => PathsIterDepth(iter) = 0

\* The entries of the work queue, front first.
file_deque == files_iter.file_deque

\* C15: in every reachable state, in both order modes, no directory sits in
\* front of a non-directory in the work queue, so the back entry is a
\* directory exactly when the queue holds a directory.
C15_QueueShape ==
    /\ \A i, j \in 1..Len(file_deque) :
          (i < j /\ is_dir(tree, file_deque[i][1])) => is_dir(tree, file_deque[j][1])
    /\ file_deque # <<>>
          => (is_dir(tree, Last(file_deque)[1])
                <=> \E i \in 1..Len(file_deque) : is_dir(tree, file_deque[i][1]))

C15_Witness ==
    /\ calls >= 2
    /\ Len(file_deque) >= 2
    /\ ~is_dir(tree, file_deque[1][1])
    /\ is_dir(tree, Last(file_deque)[1])

\* C16: in every reachable state, under every configuration, each entry
\* (node, d) of the work queue has d equal to the node's distance from the
\* root, and right after a call of next() that yielded a node, depth() is
\* that node's distance from the root.
C16_RecordedDepthsAreTrue ==
    /\ \A i \in 1..Len(file_deque) :
          file_deque[i][2] = TrueDepth(tree, file_deque[i][1])
    /\ (kind = "FilesIter" /\ ret # None)
          => FilesIterDepth(iter) = TrueDepth(tree, ret[1])

C16_Witness ==
    /\ kind = "FilesIter" /\ ret # None
    /\ TrueDepth(tree, ret[1]) = 2
    /\ \E i \in 1..Len(file_deque) : file_deque[i][2] = 1

\* The non-directory children of a directory, in child order.
OwnFiles(dir) == SelectSeq(children(tree, dir), LAMBDA c : ~is_dir(tree, c))

\* C17: with files_before_directories set, no skip flag and the default
\* depth bounds, the yields that follow the yield of a directory D are D's
\* non-directory children, in their child order, all of them once next() has
\* returned None; D's subdirectories and every other node come later.
C17_FilesRightAfterTheirDirectory ==
    (kind = "FilesIter" /\ iter.files_before_directories
        /\ NoSkipFlags(iter) /\ DefaultBounds(iter))
        => \A k \in 1..Len(yielded) :
              /\ \A i \in 1..Len(OwnFiles(yielded[k])) :
                    k + i <= Len(yielded) => yielded[k + i] = OwnFiles(yielded[k])[i]
              /\ Exhausted => k + Len(OwnFiles(yielded[k])) <= Len(yielded)

C17_Witness ==
    /\ kind = "FilesIter" /\ iter.files_before_directories
    /\ NoSkipFlags(iter) /\ DefaultBounds(iter)
    /\ Exhausted
    /\ \E k \in 1..Len(yielded) :
          /\ Len(OwnFiles(yielded[k])) >= 2
          /\ \E c \in Range(children(tree, yielded[k])) :
                is_dir(tree, c) /\ c < OwnFiles(yielded[k])[1]

\* The directories among kids and below them, depth first, a directory
\* before its subdirectories, siblings in child order.
RECURSIVE DirPreorderFrom(_)
DirPreorderFrom(kids) ==
    IF kids = <<>> THEN <<>>
    ELSE (IF is_dir(tree, Head(kids))
          THEN <<Head(kids)>> \o DirPreorderFrom(children(tree, Head(kids)))
          ELSE <<>>) \o DirPreorderFrom(Tail(kids))

DirsFirst(seq) ==
    \A i, j \in 1..Len(seq) : (i < j /\ is_dir(tree, seq[j])) => is_dir(tree, seq[i])

\* C18: with files_before_directories not set, under every configuration,
\* the popped directories are a prefix of the depth-first pre-order of the
\* tree's directories, no directory is popped after a non-directory, and a
\* non-directory is popped only when every directory has been; with no skip
\* flag and the default depth bounds the same holds of the yielded nodes.
C18_DirectoriesDrainFirst ==
    ~files_iter.files_before_directories
        => LET dirs == SelectSeq(popped, LAMBDA f : is_dir(tree, f))
               all  == DirPreorderFrom(<<1>>)
           IN  /\ DirsFirst(popped)
               /\ Len(dirs) <= Len(all) /\ dirs = SubSeq(all, 1, Len(dirs))
               /\ Len(dirs) < Len(popped) => dirs = all
               /\ (kind = "FilesIter" /\ NoSkipFlags(iter) /\ DefaultBounds(iter))
                     => yielded = popped

C18_Witness ==
    /\ kind = "FilesIter" /\ ~iter.files_before_directories
    /\ NoSkipFlags(iter) /\ DefaultBounds(iter)
    /\ Exhausted
    /\ Len(DirPreorderFrom(<<1>>)) >= 3
    /\ \E f, d \in 2..tree.n : f < d /\ ~is_dir(tree, f) /\ is_dir(tree, d)

\* C19 as stated: in both order modes, of two children of one directory
\* that are both directories or both non-directories, the one that is first
\* in the child list is never yielded after the other.
C19_SiblingOrder ==
    \A i, j \in 1..Len(yielded) :
        ( /\ i < j
          /\ tree.parent[yielded[i]] = tree.parent[yielded[j]]
          /\ is_dir(tree, yielded[i]) <=> is_dir(tree, yielded[j]) )
            => yielded[i] < yielded[j]

\* C20: with files_before_directories set, no skip flag and the default
\* depth bounds, a yielded entry is at most one level below the entry
\* yielded before it, and a yielded directory is never shallower than a
\* directory yielded earlier.
C20_FilesFirstDepths ==
    (files_iter.files_before_directories
        /\ NoSkipFlags(files_iter) /\ DefaultBounds(files_iter))
        => /\ DepthRisesByAtMostOne
           /\ (yielded # <<>> /\ is_dir(tree, Last(yielded)))
                 => \A k \in 1..Len(yielded) :
                       is_dir(tree, yielded[k]) => depths[k] <= Last(depths)

C20_Witness ==
    /\ files_iter.files_before_directories
    /\ NoSkipFlags(files_iter) /\ DefaultBounds(files_iter)
    /\ Exhausted
    /\ Len(SelectSeq(yielded, LAMBDA f : is_dir(tree, f))) >= 4
    /\ \E k \in 1..(Len(depths) - 1) : depths[k + 1] < depths[k]
    /\ \E k \in 1..Len(depths) : depths[k] = 2 /\ is_dir(tree, yielded[k])

=============================================================================
